---- MODULE Spec2Model ----
(***************************************************************************)
(* Model of rename-media-date.py: the filename derivation, the duplicate   *)
(* detector, the copy orchestrator (save_media_with_datetime) and the      *)
(* batch driver (process_media).                                           *)
(*                                                                         *)
(* A filename is a sequence of one-character strings, so that splitext,    *)
(* split("_"), the timestamp regular expression, isoformat and             *)
(* sanitize_filename are computed character by character.                  *)
(***************************************************************************)
EXTENDS Integers, Sequences, FiniteSets, TLC

VARIABLES
    fs,                         \* directory -> set of [name, content]
    mode,                       \* directory -> "rw" | "ro" | "missing"
    file_spec, destination_dir, adjust_hours, simulate, force,   \* argv
    pc,                         \* position of process_media
    media_files,                \* result of glob.glob(file_spec), as a set
    visited,                    \* the elements of media_files the loop has taken
    total_media_requested, total_media_processed, total_media_without_dates,
    output,                     \* lines printed by the current run
    outcomes,                   \* history: the outcome of each file of the run
    run,                        \* which invocation of process_media this is
    fs0,                        \* history: fs when the current run started
    d_pc, d_name, d_date, d_hours, d_first, d_second   \* derivation harness

vars == <<fs, mode, file_spec, destination_dir, adjust_hours, simulate, force,
          pc, media_files, visited, total_media_requested, total_media_processed,
          total_media_without_dates, output, outcomes, run, fs0,
          d_pc, d_name, d_date, d_hours, d_first, d_second>>

batchVars == <<fs, mode, file_spec, destination_dir, adjust_hours, simulate,
               force, pc, media_files, visited, total_media_requested,
               total_media_processed, total_media_without_dates, output,
               outcomes, run, fs0>>

deriveVars == <<d_pc, d_name, d_date, d_hours, d_first, d_second>>

----------------------------------------------------------------------------
(* Bounds *)

MaxAdjust == 1      \* --adjust ranges over -MaxAdjust..MaxAdjust
MaxFiles == 2       \* files initially in the source directory
MaxRuns == 2        \* consecutive invocations of process_media

----------------------------------------------------------------------------
(* Characters and strings *)

Digits == {"0", "1", "2", "3", "4", "5", "6", "7", "8", "9"}

DigitChar(n) == <<"0", "1", "2", "3", "4", "5", "6", "7", "8", "9">>[n + 1]

\* str.lower() on the characters the model uses
LowerChar(c) ==
    CASE c = "M" -> "m"
      [] c = "P" -> "p"
      [] OTHER -> c

Lower(s) == [i \in 1..Len(s) |-> LowerChar(s[i])]

EndsWith(s, suffix) ==
    /\ Len(s) >= Len(suffix)
    /\ SubSeq(s, Len(s) - Len(suffix) + 1, Len(s)) = suffix

\* r"^\d{4}-\d{2}-\d{2}T\d{2}-\d{2}-\d{2}_"
TimestampPattern ==
    <<"DIGIT", "DIGIT", "DIGIT", "DIGIT", "-", "DIGIT", "DIGIT", "-",
      "DIGIT", "DIGIT", "T", "DIGIT", "DIGIT", "-", "DIGIT", "DIGIT", "-",
      "DIGIT", "DIGIT", "_">>

MatchChar(c, p) == IF p = "DIGIT" THEN c \in Digits ELSE c = p

\* re.search / re.sub anchor the pattern at the start of the string
MatchesTimestamp(s) ==
    /\ Len(s) >= Len(TimestampPattern)
    /\ \A i \in 1..Len(TimestampPattern) : MatchChar(s[i], TimestampPattern[i])

\* re.sub(pattern, "", s): the anchored pattern is replaced at most once
StripTimestamp(s) ==
    IF MatchesTimestamp(s)
    THEN SubSeq(s, Len(TimestampPattern) + 1, Len(s))
    ELSE s

has_timestamp_in_filename(filename) == MatchesTimestamp(filename)

SanitizedChars == {"<", ">", ":", "\"", "/", "\\", "|", "?", "*"}

sanitize_filename(filename) ==
    [i \in 1..Len(filename) |->
        IF filename[i] \in SanitizedChars THEN "-" ELSE filename[i]]

\* str.split(sep): the pieces between the occurrences of sep
RECURSIVE SplitFrom(_, _, _, _)
SplitFrom(s, sep, i, cur) ==
    IF i > Len(s) THEN <<cur>>
    ELSE IF s[i] = sep THEN <<cur>> \o SplitFrom(s, sep, i + 1, <<>>)
    ELSE SplitFrom(s, sep, i + 1, Append(cur, s[i]))

Split(s, sep) == SplitFrom(s, sep, 1, <<>>)

\* sep.join(parts)
RECURSIVE Join(_, _)
Join(parts, sep) ==
    IF Len(parts) = 0 THEN <<>>
    ELSE IF Len(parts) = 1 THEN parts[1]
    ELSE parts[1] \o (IF sep = "" THEN <<>> ELSE <<sep>>) \o Join(Tail(parts), sep)

\* index of the last "." of s, 0 when there is none (str.rfind)
LastDot(s) ==
    IF \E i \in 1..Len(s) : s[i] = "."
    THEN CHOOSE i \in 1..Len(s) :
            /\ s[i] = "."
            /\ \A j \in (i + 1)..Len(s) : s[j] # "."
    ELSE 0

\* os.path.splitext on a name without directory part: the extension starts
\* at the last dot, unless only dots precede that dot
splitext(name) ==
    LET dot == LastDot(name) IN
    IF dot > 0 /\ \E k \in 1..(dot - 1) : name[k] # "."
    THEN <<SubSeq(name, 1, dot - 1), SubSeq(name, dot, Len(name))>>
    ELSE <<name, <<>>>>

----------------------------------------------------------------------------
(* datetime: naive date and time of whole seconds, as strptime and the      *)
(* container parser produce them                                            *)

DateTime(y, mo, d, h, mi, s) ==
    [year |-> y, month |-> mo, day |-> d, hour |-> h, minute |-> mi, second |-> s]

IsLeap(y) == (y % 4 = 0) /\ ((y % 100 # 0) \/ (y % 400 = 0))

DaysInMonth(y, m) ==
    IF m = 2 THEN (IF IsLeap(y) THEN 29 ELSE 28)
    ELSE IF m \in {4, 6, 9, 11} THEN 30
    ELSE 31

NextDay(dt) ==
    IF dt.day < DaysInMonth(dt.year, dt.month) THEN [dt EXCEPT !.day = @ + 1]
    ELSE IF dt.month < 12 THEN [dt EXCEPT !.day = 1, !.month = @ + 1]
    ELSE [dt EXCEPT !.day = 1, !.month = 1, !.year = @ + 1]

PrevDay(dt) ==
    IF dt.day > 1 THEN [dt EXCEPT !.day = @ - 1]
    ELSE IF dt.month > 1
         THEN [dt EXCEPT !.day = DaysInMonth(dt.year, dt.month - 1), !.month = @ - 1]
    ELSE [dt EXCEPT !.day = 31, !.month = 12, !.year = @ - 1]

RECURSIVE ShiftDays(_, _)
ShiftDays(dt, n) ==
    IF n = 0 THEN dt
    ELSE IF n > 0 THEN ShiftDays(NextDay(dt), n - 1)
    ELSE ShiftDays(PrevDay(dt), n + 1)

\* media_creation_date + datetime.timedelta(hours=adjust_hours), before the
\* range check
AddHours(dt, hours) ==
    LET total == dt.hour + hours
    IN  ShiftDays([dt EXCEPT !.hour = total % 24], total \div 24)

\* the addition raises OverflowError when the result leaves the years 1..9999
Overflows(dt, hours) ==
    LET moved == AddHours(dt, hours) IN moved.year < 1 \/ moved.year > 9999

Pad2(n) == <<DigitChar(n \div 10), DigitChar(n % 10)>>

Pad4(n) == <<DigitChar(n \div 1000), DigitChar((n \div 100) % 10)>> \o Pad2(n % 100)

\* faulty variant: str(datetime), which separates date and time by a space
isoformatSpace(dt) ==
    Pad4(dt.year) \o <<"-">> \o Pad2(dt.month) \o <<"-">> \o Pad2(dt.day) \o <<" ">>
    \o Pad2(dt.hour) \o <<":">> \o Pad2(dt.minute) \o <<":">> \o Pad2(dt.second)

\* datetime.isoformat() of a value without microseconds and without tzinfo
isoformat(dt) ==
    Pad4(dt.year) \o <<"-">> \o Pad2(dt.month) \o <<"-">> \o Pad2(dt.day) \o <<"T">>
    \o Pad2(dt.hour) \o <<":">> \o Pad2(dt.minute) \o <<":">> \o Pad2(dt.second)

----------------------------------------------------------------------------
(* Filename Deriver: save_media_with_datetime, from the adjustment of the   *)
(* date to the sanitized new filename                                       *)

\* faulty variant: the remaining components are joined without the separator
StripBaseNameJoinEmpty(filename) ==
    IF has_timestamp_in_filename(filename)
    THEN Join(Tail(Split(filename, "_")), "")
    ELSE filename

\* the base name with a leading timestamp removed: split on "_", drop the
\* first component, join the rest
StripBaseName(filename) ==
    IF has_timestamp_in_filename(filename)
    THEN Join(Tail(Split(filename, "_")), "_")
    ELSE filename

\* what stands for a raised exception where a filename is expected
OverflowError == <<"OverflowError">>

\* the value of sanitized_new_filename, or OverflowError when the adjustment
\* of the date raises
NewFilename(original_filename, media_creation_date, hours) ==
    LET adjusted_datetime == AddHours(media_creation_date, hours)
        parts == splitext(original_filename)
        filename == StripBaseName(parts[1])
        extension == parts[2]
        new_filename == isoformat(adjusted_datetime) \o <<"_">> \o filename \o extension
    IN  IF Overflows(media_creation_date, hours)
        THEN OverflowError
        ELSE sanitize_filename(new_filename)

----------------------------------------------------------------------------
(* Inputs of the derivation harness *)

Date1 == DateTime(2023, 5, 10, 14, 30, 0)
Date2 == DateTime(2024, 2, 28, 23, 15, 5)
Date3 == DateTime(2023, 1, 1, 0, 10, 0)
DateMax == DateTime(9999, 12, 31, 23, 59, 59)

\* a timestamp prefix as an earlier run wrote it
Stamp(dt) == sanitize_filename(isoformat(dt)) \o <<"_">>

Photo == <<"p", "h", "o", "t", "o">>
DotJpg == <<".", "j", "p", "g">>
DotMp4 == <<".", "m", "p", "4">>
DotMP4 == <<".", "M", "P", "4">>

DerivePrefixes ==
    { <<>>, Stamp(Date1), Stamp(Date2) \o Stamp(Date1),
      isoformat(Date1) \o <<"_">>,          \* colons: not a timestamp prefix
      SubSeq(Stamp(Date1), 1, 19) }         \* no "_": not a timestamp prefix

DeriveStems ==
    { <<>>, Photo, <<"a", "_", "b">>, <<"a", ":", "b">>, <<"x", "*", "?">>,
      <<".", "h">>, <<"a", ".", "b">> }

DeriveExtensions == { <<>>, DotJpg, DotMP4 }

DeriveNames ==
    { n \in { p \o st \o e : p \in DerivePrefixes, st \in DeriveStems,
                             e \in DeriveExtensions } : Len(n) > 0 }

DeriveDates == { Date1, Date2, Date3, DateMax }

AdjustRange == (0 - MaxAdjust)..MaxAdjust

----------------------------------------------------------------------------
(* The filesystem: two directories that do not contain each other, the      *)
(* working directory "." and the directory "/out". A file is a name and a   *)
(* content; a content carries what each metadata reader finds in it.        *)

Dirs == {".", "/out"}

None == "None"

NoDate == DateTime(0, 0, 0, 0, 0, 0)

Found(dt) == [kind |-> "date", date |-> dt]     \* the reader returns this date
Absent == [kind |-> "absent", date |-> NoDate]  \* no capture or creation date
Raises == [kind |-> "raises", date |-> NoDate]  \* the reader raises

Content(id, exif, container) == [id |-> id, exif |-> exif, container |-> container]

File(name, content) == [name |-> name, content |-> content]

Path(dir, name) == [dir |-> dir, name |-> name]

NoPath == Path("", <<>>)

\* if not original_dir: original_dir = "."
OriginalDir(path) == IF path.dir = "" THEN "." ELSE path.dir

Names(d) == { f.name : f \in fs[d] }

HasFile(d, name) == mode[d] # "missing" /\ name \in Names(d)

ContentOf(d, name) == (CHOOSE f \in fs[d] : f.name = name).content

\* os.listdir raises when the directory does not exist
ListdirRaises(d) == mode[d] = "missing"

----------------------------------------------------------------------------
(* Duplicate Detector *)

\* faulty variant: the directory entries are compared with their timestamps on
filename_has_match_Unstripped(directory, filename) ==
    LET filename_without_timestamp == StripTimestamp(filename) IN
    \E file \in Names(directory) : file = filename_without_timestamp

filename_has_match(directory, filename) ==
    LET filename_without_timestamp == StripTimestamp(filename) IN
    \E file \in Names(directory) :
        StripTimestamp(file) = filename_without_timestamp

----------------------------------------------------------------------------
(* Metadata Extractor: the value returned and whether "Error: ..." is       *)
(* printed on the way                                                       *)

\* faulty variant: an image without capture date gets a default date instead of None
get_media_creation_date_Default(media_path) ==
    LET content == ContentOf(OriginalDir(media_path), media_path.name) IN
    IF EndsWith(Lower(media_path.name), DotMp4)
    THEN IF content.container.kind = "date"
         THEN [value |-> content.container.date, isNone |-> FALSE, error |-> FALSE]
         ELSE [value |-> NoDate, isNone |-> TRUE, error |-> TRUE]
    ELSE CASE content.exif.kind = "date" ->
                [value |-> content.exif.date, isNone |-> FALSE, error |-> FALSE]
           [] content.exif.kind = "absent" ->
                [value |-> Date1, isNone |-> FALSE, error |-> FALSE]
           [] OTHER ->
                [value |-> NoDate, isNone |-> TRUE, error |-> TRUE]

get_media_creation_date(media_path) ==
    LET content == ContentOf(OriginalDir(media_path), media_path.name) IN
    IF EndsWith(Lower(media_path.name), DotMp4)
    THEN \* a missing creation_date raises ValueError inside the try block
         IF content.container.kind = "date"
         THEN [value |-> content.container.date, isNone |-> FALSE, error |-> FALSE]
         ELSE [value |-> NoDate, isNone |-> TRUE, error |-> TRUE]
    ELSE CASE content.exif.kind = "date" ->
                [value |-> content.exif.date, isNone |-> FALSE, error |-> FALSE]
           [] content.exif.kind = "absent" ->
                [value |-> NoDate, isNone |-> TRUE, error |-> FALSE]
           [] OTHER ->
                [value |-> NoDate, isNone |-> TRUE, error |-> TRUE]

----------------------------------------------------------------------------
(* Copy Orchestrator *)

TargetDir(original_path) ==
    IF destination_dir = None THEN OriginalDir(original_path) ELSE destination_dir

NewPath(original_path, media_creation_date) ==
    Path(TargetDir(original_path),
         NewFilename(original_path.name, media_creation_date, adjust_hours))

\* shutil.copy2 raises: source and target are the same file, the target
\* directory does not exist, or it is on a read-only filesystem
CopyRaises(original_path, new_path) ==
    \/ /\ OriginalDir(original_path) = new_path.dir
       /\ original_path.name = new_path.name
    \/ mode[new_path.dir] # "rw"

\* faulty variant: the force flag is tested the wrong way round
SkipsDuplicateInverted(new_path) ==
    /\ force
    /\ \/ HasFile(new_path.dir, new_path.name)
       \/ filename_has_match(new_path.dir, new_path.name)

\* not force and (os.path.exists(new_path) or filename_has_match(...))
SkipsDuplicate(new_path) ==
    /\ ~force
    /\ \/ HasFile(new_path.dir, new_path.name)
       \/ filename_has_match(new_path.dir, new_path.name)

\* the duplicate test itself raises: "or" reaches os.listdir of a missing
\* directory
DuplicateTestRaises(new_path) ==
    /\ ~force
    /\ ~HasFile(new_path.dir, new_path.name)
    /\ ListdirRaises(new_path.dir)

\* faulty variant: the simulate flag is not consulted before the copy
SaveOutcomeIgnoresSimulate(original_path, isNone, media_creation_date) ==
    LET new_path == NewPath(original_path, media_creation_date) IN
    IF isNone THEN "SkippedNoDate"
    ELSE IF Overflows(media_creation_date, adjust_hours) THEN "Raised"
    ELSE IF DuplicateTestRaises(new_path) THEN "Raised"
    ELSE IF SkipsDuplicate(new_path) THEN "SkippedDuplicate"
    ELSE IF CopyRaises(original_path, new_path) THEN "Raised"
    ELSE "Copied"

\* how save_media_with_datetime ends: one of the four outcomes, or "Raised"
\* when an exception leaves the function
SaveOutcome(original_path, isNone, media_creation_date) ==
    LET new_path == NewPath(original_path, media_creation_date) IN
    IF isNone THEN "SkippedNoDate"
    ELSE IF Overflows(media_creation_date, adjust_hours) THEN "Raised"
    ELSE IF DuplicateTestRaises(new_path) THEN "Raised"
    ELSE IF SkipsDuplicate(new_path) THEN "SkippedDuplicate"
    ELSE IF simulate THEN "SimulatedCopy"
    ELSE IF CopyRaises(original_path, new_path) THEN "Raised"
    ELSE "Copied"

\* the filesystem after shutil.copy2(original_path, new_path): the content
\* and its metadata are written at new_path, replacing what was there
CopyFile(original_path, new_path) ==
    LET content == ContentOf(OriginalDir(original_path), original_path.name) IN
    [fs EXCEPT ![new_path.dir] =
        { f \in @ : f.name # new_path.name } \cup { File(new_path.name, content) }]

Line(kind, file, target, counts) ==
    [kind |-> kind, file |-> file, target |-> target, counts |-> counts]

Outcome(file, outcome) == [file |-> file, outcome |-> outcome]

----------------------------------------------------------------------------
(* Batch Driver *)

Star == <<"*">>

\* fnmatch of a name against a pattern "*" \o suffix; a pattern that does
\* not start with "." matches no hidden file
GlobMatch(pattern, name) ==
    /\ name[1] # "."
    /\ EndsWith(name, Tail(pattern))

\* glob.glob(file_spec). The list comes in the order of the directory scan,
\* which is any order: the model keeps the matches as a set and lets the loop
\* take them in any order.
GlobResult == { Path("", n) : n \in { m \in Names(".") : GlobMatch(file_spec, m) } }

\* process_media up to the loop: the counters, glob.glob, the empty case
Glob ==
    /\ pc = "start"
    /\ total_media_requested' = 0
    /\ total_media_processed' = 0
    /\ total_media_without_dates' = 0
    /\ media_files' = GlobResult
    /\ visited' = {}
    /\ IF GlobResult = {}
       THEN /\ output' = Append(output, Line("NoMatch", NoPath, NoPath, <<>>))
            /\ pc' = "nomatch"
       ELSE /\ output' = output
            /\ pc' = "loop"
    /\ UNCHANGED <<fs, mode, file_spec, destination_dir, adjust_hours, simulate,
                   force, outcomes, run, fs0>>
    /\ UNCHANGED deriveVars

\* faulty variant: the commented-out print of the skip is active
StatusLinesWithSkip(media_file, outcome, new_path) ==
    CASE outcome = "Copied" -> <<Line("Copied", media_file, new_path, <<>>)>>
      [] outcome = "SimulatedCopy" ->
            <<Line("Simulated Copy", media_file, new_path, <<>>)>>
      [] outcome = "SkippedNoDate" ->
            <<Line("No Creation Date", media_file, NoPath, <<>>)>>
      [] outcome = "SkippedDuplicate" ->
            <<Line("Skipped", media_file, NoPath, <<>>)>>
      [] OTHER -> <<>>

\* the status line printed for a file: by save_media_with_datetime after the
\* copy or the simulated copy, by process_media for a file without date;
\* nothing is printed for a skipped duplicate (the print is commented out)
StatusLines(media_file, outcome, new_path) ==
    CASE outcome = "Copied" -> <<Line("Copied", media_file, new_path, <<>>)>>
      [] outcome = "SimulatedCopy" ->
            <<Line("Simulated Copy", media_file, new_path, <<>>)>>
      [] outcome = "SkippedNoDate" ->
            <<Line("No Creation Date", media_file, NoPath, <<>>)>>
      [] OTHER -> <<>>

\* the body of the loop for media_file: extraction, then the save or the
\* no-date branch; an exception leaving save_media_with_datetime ends
\* process_media
LoopBody(media_file) ==
    LET found == get_media_creation_date(media_file)
        errorLine == IF found.error
                     THEN <<Line("Error", media_file, NoPath, <<>>)>>
                     ELSE <<>>
        outcome == SaveOutcome(media_file, found.isNone, found.value)
        new_path == NewPath(media_file, found.value)
    IN  /\ total_media_requested' = total_media_requested + 1
        /\ visited' = visited \cup {media_file}
        /\ outcomes' = outcomes \cup {Outcome(media_file, outcome)}
        /\ output' = output \o errorLine \o StatusLines(media_file, outcome, new_path)
        /\ IF found.isNone
           THEN /\ total_media_without_dates' = total_media_without_dates + 1
                /\ UNCHANGED <<fs, total_media_processed, pc>>
           ELSE /\ total_media_without_dates' = total_media_without_dates
                /\ CASE outcome = "Raised" ->
                          /\ pc' = "aborted"
                          /\ UNCHANGED <<fs, total_media_processed>>
                     [] outcome = "Copied" ->
                          /\ fs' = CopyFile(media_file, new_path)
                          /\ total_media_processed' = total_media_processed + 1
                          /\ UNCHANGED pc
                     [] outcome = "SimulatedCopy" ->
                          /\ total_media_processed' = total_media_processed + 1
                          /\ UNCHANGED <<fs, pc>>
                     [] OTHER ->       \* save_media_with_datetime returned False
                          /\ UNCHANGED <<fs, total_media_processed, pc>>

\* one iteration of the loop over media_files
ProcessFile ==
    /\ pc = "loop"
    /\ \E media_file \in media_files \ visited : LoopBody(media_file)
    /\ UNCHANGED <<mode, file_spec, destination_dir, adjust_hours, simulate,
                   force, media_files, run, fs0>>
    /\ UNCHANGED deriveVars

\* faulty variant: the files without date are not subtracted
AlreadyCopiedForgetsNoDate(requested, processed, without_dates) ==
    requested - processed

\* the "Already Copied" figure of the summary line
AlreadyCopied(requested, processed, without_dates) ==
    requested - processed - without_dates

\* the summary line after the loop
Summary ==
    /\ pc = "loop"
    /\ visited = media_files
    /\ output' = Append(output,
          Line("Summary", NoPath, NoPath,
               << total_media_requested, total_media_processed,
                  AlreadyCopied(total_media_requested, total_media_processed,
                                total_media_without_dates),
                  total_media_without_dates >>))
    /\ pc' = "done"
    /\ UNCHANGED <<fs, mode, file_spec, destination_dir, adjust_hours, simulate,
                   force, media_files, visited, total_media_requested,
                   total_media_processed, total_media_without_dates, outcomes,
                   run, fs0>>
    /\ UNCHANGED deriveVars

\* the script is started again with the same command line
Rerun ==
    /\ pc \in {"done", "aborted", "nomatch"}
    /\ run < MaxRuns
    /\ run' = run + 1
    /\ pc' = "start"
    /\ fs0' = fs
    /\ output' = <<>>
    /\ outcomes' = {}
    /\ media_files' = {}
    /\ visited' = {}
    /\ total_media_requested' = 0
    /\ total_media_processed' = 0
    /\ total_media_without_dates' = 0
    /\ UNCHANGED <<fs, mode, file_spec, destination_dir, adjust_hours, simulate, force>>
    /\ UNCHANGED deriveVars

----------------------------------------------------------------------------
(* Initial states of the batch *)

ImgA == Content("A", Found(Date1), Raises)
ImgB == Content("B", Found(Date2), Raises)
ImgNoTag == Content("N", Absent, Raises)
Video == Content("V", Raises, Found(DateMax))
Junk == Content("J", Raises, Raises)

SourceFiles ==
    { File(Photo \o DotJpg, ImgA),
      File(Stamp(Date1) \o Photo \o DotJpg, ImgA),
      File(<<"a", ":", "b">> \o DotJpg, ImgB),
      File(<<"c">> \o DotMP4, Video),
      File(<<"n">> \o DotJpg, ImgNoTag),
      File(<<"j">> \o DotMp4, Junk) }

OutFiles ==
    { File(Stamp(Date1) \o Photo \o DotJpg, ImgB),
      File(<<"a", "-", "b">> \o DotJpg, ImgA) }

Modes ==
    { [d \in Dirs |-> "rw"],
      [d \in Dirs |-> IF d = "." THEN "rw" ELSE "ro"],
      [d \in Dirs |-> IF d = "." THEN "rw" ELSE "missing"] }

BatchAdjust == { 0 - MaxAdjust, 0, MaxAdjust }

DeriveOff ==
    /\ d_pc = "off"
    /\ d_name = <<>>
    /\ d_date = NoDate
    /\ d_hours = 0
    /\ d_first = <<>>
    /\ d_second = <<>>

Init ==
    /\ mode \in Modes
    /\ \E here \in SUBSET SourceFiles, out \in SUBSET OutFiles :
          /\ Cardinality(here) \in 1..MaxFiles
          /\ Cardinality(out) <= 1
          /\ mode["/out"] = "missing" => out = {}
          /\ fs = [d \in Dirs |-> IF d = "." THEN here ELSE out]
    /\ fs0 = fs
    /\ file_spec \in { Star, Star \o DotJpg }
    /\ destination_dir \in { None, "/out" }
    /\ adjust_hours \in BatchAdjust
    /\ simulate \in BOOLEAN
    /\ force \in BOOLEAN
    /\ pc = "start"
    /\ media_files = {}
    /\ visited = {}
    /\ total_media_requested = 0
    /\ total_media_processed = 0
    /\ total_media_without_dates = 0
    /\ output = <<>>
    /\ outcomes = {}
    /\ run = 1
    /\ DeriveOff

Next == Glob \/ ProcessFile \/ Summary \/ Rerun

Spec == Init /\ [][Next]_vars

----------------------------------------------------------------------------
(* The derivation alone: a filename, a date and an offset are derived, and  *)
(* the derived name is derived again as a later run over the target         *)
(* directory does                                                           *)

BatchOff ==
    /\ fs = [d \in Dirs |-> {}]
    /\ fs0 = fs
    /\ mode = [d \in Dirs |-> "rw"]
    /\ file_spec = Star
    /\ destination_dir = None
    /\ adjust_hours = 0
    /\ simulate = FALSE
    /\ force = FALSE
    /\ pc = "off"
    /\ media_files = {}
    /\ visited = {}
    /\ total_media_requested = 0
    /\ total_media_processed = 0
    /\ total_media_without_dates = 0
    /\ output = <<>>
    /\ outcomes = {}
    /\ run = 0

InitDerive ==
    /\ BatchOff
    /\ d_pc = "input"
    /\ d_name \in DeriveNames
    /\ d_date \in DeriveDates
    /\ d_hours \in AdjustRange
    /\ d_first = <<>>
    /\ d_second = <<>>

\* the derivation of the new filename in save_media_with_datetime
Derive ==
    /\ d_pc = "input"
    /\ d_first' = NewFilename(d_name, d_date, d_hours)
    /\ d_pc' = IF d_first' = OverflowError THEN "raised" ELSE "derived"
    /\ UNCHANGED <<d_name, d_date, d_hours, d_second>>
    /\ UNCHANGED batchVars

\* the same derivation applied to the file the first one named
Rederive ==
    /\ d_pc = "derived"
    /\ d_second' = NewFilename(d_first, d_date, d_hours)
    /\ d_pc' = "rederived"
    /\ UNCHANGED <<d_name, d_date, d_hours, d_first>>
    /\ UNCHANGED batchVars

NextDerive == Derive \/ Rederive

SpecDerive == InitDerive /\ [][NextDerive]_vars

----------------------------------------------------------------------------
(* Vocabulary of the properties *)

\* what the reader chosen by the extension finds in the file
MetaOf(f) ==
    LET c == ContentOf(OriginalDir(f), f.name) IN
    IF EndsWith(Lower(f.name), DotMp4) THEN c.container ELSE c.exif

Dated(f) == MetaOf(f).kind = "date"

HasSanitizedChar(s) == \E i \in 1..Len(s) : s[i] \in SanitizedChars

Hyphenated(s) == [i \in 1..Len(s) |-> IF s[i] \in SanitizedChars THEN "-" ELSE s[i]]

DirOfTarget(f) == IF destination_dir = None THEN OriginalDir(f) ELSE destination_dir

\* the target directory holds an entry equal to the file's name once the
\* timestamp prefixes are removed and the illegal characters replaced
EquivalentInTarget(f) ==
    \E g \in fs[DirOfTarget(f)] :
        StripTimestamp(g.name) = Hyphenated(StripTimestamp(f.name))

OutcomesOf(kinds) == { o \in outcomes : o.outcome \in kinds }

CopyOutcomes == {"Copied", "SimulatedCopy", "SkippedDuplicate", "SkippedNoDate"}

\* the status lines of the output that name file f
StatusLinesNaming(f) ==
    { i \in DOMAIN output : output[i].file = f /\ output[i].kind # "Error" }

LinesNaming(f) == { i \in DOMAIN output : output[i].file = f }

----------------------------------------------------------------------------
(* C1 *)

\* C1. Idempotence of the batch: in a second run with the same arguments,
\* force = false and simulate = false, no file is created or overwritten,
\* the processed count is 0 and every dated input is skipped as a duplicate.
C1_Idempotence ==
    (run = 2 /\ ~force /\ ~simulate) =>
        /\ fs = fs0
        /\ total_media_processed = 0
        /\ \A o \in outcomes : o.outcome \in {"SkippedDuplicate", "SkippedNoDate"}

----------------------------------------------------------------------------
(* C2 *)

\* a step that prints a "Copied" line
CopiedStep ==
    /\ Len(output') = Len(output) + 1
    /\ output'[Len(output')].kind = "Copied"

\* C2. Never overwrites without force: with force = false a copy goes only
\* to a path at which no file existed immediately before it, and every file
\* stays in place with its content; with any flags no name disappears from
\* any directory (no file is moved or deleted).
C2_NeverOverwrites ==
    [][ /\ (~force /\ CopiedStep) =>
              LET t == output'[Len(output')].target IN ~HasFile(t.dir, t.name)
        /\ ~force => \A d \in Dirs : fs[d] \subseteq fs'[d]
        /\ \A d \in Dirs : \A f \in fs[d] : \E g \in fs'[d] : g.name = f.name
      ]_vars

\* a run without force has copied into a directory that already held files
C2_Witness ==
    /\ ~force
    /\ pc = "done"
    /\ fs0["/out"] # {}
    /\ fs["/out"] # fs0["/out"]
    /\ OutcomesOf({"Copied"}) # {}

----------------------------------------------------------------------------
(* C3 *)

\* C3. Failure isolation: a failure of extraction or of the copy step for one
\* file does not abort the batch; the later files are still processed and the
\* summary line is still printed.
C3_FailureIsolation ==
    (\E o \in outcomes : o.outcome = "Raised") => pc \in {"loop", "done"}

----------------------------------------------------------------------------
(* C4 *)

\* C4 as claimed. Every per-file outcome is reported: each file with one of
\* the four outcomes has exactly one status line naming it, a skipped
\* duplicate included.
C4_EveryOutcomeReported ==
    \A o \in OutcomesOf(CopyOutcomes) : Cardinality(StatusLinesNaming(o.file)) = 1

ExpectedKind(outcome) ==
    CASE outcome = "Copied" -> "Copied"
      [] outcome = "SimulatedCopy" -> "Simulated Copy"
      [] outcome = "SkippedNoDate" -> "No Creation Date"
      [] OTHER -> "none"

\* C4 as amended. A file whose outcome is Copied, SimulatedCopy or
\* SkippedNoDate has exactly one status line naming it, of the kind of its
\* outcome; a file skipped as a duplicate has no line at all.
C4_ReportedExceptDuplicates ==
    \A o \in OutcomesOf(CopyOutcomes) :
        IF o.outcome = "SkippedDuplicate"
        THEN LinesNaming(o.file) = {}
        ELSE /\ Cardinality(StatusLinesNaming(o.file)) = 1
             /\ \A i \in StatusLinesNaming(o.file) :
                    output[i].kind = ExpectedKind(o.outcome)

\* a completed run with a copied file and a silently skipped duplicate
C4_Witness ==
    /\ pc = "done"
    /\ OutcomesOf({"SkippedDuplicate"}) # {}
    /\ OutcomesOf({"Copied"}) # {}
    /\ \A o \in OutcomesOf({"SkippedDuplicate"}) : LinesNaming(o.file) = {}

----------------------------------------------------------------------------
(* C5 *)

----------------------------------------------------------------------------
(* C6 *)

\* the loop takes file f in this step
Takes(f) == f \notin visited /\ f \in visited'

\* C6. A file without a creation date is never copied: whatever force and
\* simulate are, the step that processes such a file leaves the filesystem
\* as it is, gives the file the outcome SkippedNoDate, prints no copy line
\* and adds one to the no-date counter and nothing to the processed counter.
C6_NoDateNeverCopied ==
    [][ \A f \in media_files :
            (Takes(f) /\ ~Dated(f)) =>
                /\ fs' = fs
                /\ outcomes' = outcomes \cup {Outcome(f, "SkippedNoDate")}
                /\ total_media_without_dates' = total_media_without_dates + 1
                /\ total_media_processed' = total_media_processed
                /\ \A i \in DOMAIN output' :
                       output'[i].file = f =>
                           output'[i].kind \in {"No Creation Date", "Error"}
      ]_vars

\* a forced, not simulated run has met a file without date
C6_Witness ==
    /\ force
    /\ ~simulate
    /\ OutcomesOf({"SkippedNoDate"}) # {}
    /\ OutcomesOf({"Copied"}) # {}
    /\ total_media_without_dates >= 1

----------------------------------------------------------------------------
(* C7 *)

\* C7. Summary accounting: processed + no-date never exceeds requested, and
\* when the batch completes requested is the number of matched files,
\* processed the number of Copied or SimulatedCopy outcomes, no-date the
\* number of SkippedNoDate outcomes, and the "Already Copied" figure of the
\* summary line is the number of SkippedDuplicate outcomes.
C7_SummaryAccounting ==
    /\ total_media_processed + total_media_without_dates <= total_media_requested
    /\ pc = "done" =>
          LET summary == output[Len(output)] IN
          /\ summary.kind = "Summary"
          /\ total_media_requested = Cardinality(media_files)
          /\ total_media_processed
                = Cardinality(OutcomesOf({"Copied", "SimulatedCopy"}))
          /\ total_media_without_dates = Cardinality(OutcomesOf({"SkippedNoDate"}))
          /\ summary.counts[1] = total_media_requested
          /\ summary.counts[2] = total_media_processed
          /\ summary.counts[4] = total_media_without_dates
          /\ summary.counts[3] >= 0
          /\ summary.counts[3] = Cardinality(OutcomesOf({"SkippedDuplicate"}))

\* a completed batch with a copy and a skipped duplicate in its summary
C7_Witness ==
    /\ pc = "done"
    /\ total_media_processed >= 1
    /\ output[Len(output)].counts[3] >= 1
    /\ OutcomesOf({"SkippedDuplicate"}) # {}

----------------------------------------------------------------------------
(* C8 *)

StampLen == Len(TimestampPattern)

\* C8. No prefix accumulation: for a name whose base begins with a timestamp
\* prefix the derived name is the new timestamp followed by the name without
\* exactly that prefix; and deriving a derived name again with the same date
\* and offset returns it unchanged.
C8_NoPrefixAccumulation ==
    /\ (d_pc \in {"derived", "rederived"} /\ MatchesTimestamp(splitext(d_name)[1])) =>
          /\ Len(d_first) = Len(d_name)
          /\ SubSeq(d_first, StampLen + 1, Len(d_first))
                = Hyphenated(SubSeq(d_name, StampLen + 1, Len(d_name)))
          /\ MatchesTimestamp(d_first)
    /\ d_pc = "rederived" => d_second = d_first

\* a name with a prefix followed by a second prefix has been derived twice
C8_Witness ==
    /\ d_pc = "rederived"
    /\ MatchesTimestamp(d_name)
    /\ MatchesTimestamp(SubSeq(d_name, StampLen + 1, Len(d_name)))
    /\ d_hours # 0

----------------------------------------------------------------------------
(* C9 *)

\* C9 as claimed. Round trip: removing the timestamp prefix from the derived
\* name recovers exactly the original name without its own prefix.
C9_RoundTrip ==
    d_pc \in {"derived", "rederived"} => StripTimestamp(d_first) = StripTimestamp(d_name)

\* C9 as amended. Removing the timestamp prefix from the derived name
\* recovers the original name without its own prefix, with every character
\* of < > : " / \ | ? * replaced by a hyphen; it is exactly the original when
\* the original holds none of these characters.
C9_RoundTripSanitized ==
    d_pc \in {"derived", "rederived"} =>
        /\ MatchesTimestamp(d_first)
        /\ StripTimestamp(d_first) = Hyphenated(StripTimestamp(d_name))
        /\ ~HasSanitizedChar(d_name) => StripTimestamp(d_first) = StripTimestamp(d_name)

\* a name with a prefix and an illegal character has been derived
C9_Witness ==
    /\ d_pc = "derived"
    /\ MatchesTimestamp(d_name)
    /\ HasSanitizedChar(d_name)
    /\ StripTimestamp(d_first) # StripTimestamp(d_name)

----------------------------------------------------------------------------
(* C10 *)

====
